---- MODULE Spec2Model ----
(***************************************************************************)
(* Model of demos/market-maker-5000/market_maker_bot.py: the quote         *)
(* calculator, the order sizer and the refresh loop of main, run against a *)
(* venue whose every request may succeed, answer with a non-success status *)
(* or raise in the transport.                                              *)
(*                                                                         *)
(* Numbers.  Prices read from a ticker are decimal strings; a numeric one  *)
(* is held as an integer count of hundredths.  All arithmetic is exact     *)
(* rational arithmetic (numerator, denominator); the binary rounding of    *)
(* Python floats is not modelled.  SPREAD_PERCENTAGE is held in tenths of  *)
(* a percent (5 is 0.5%).  A rounded price is an integer count of          *)
(* 10^-PRICE_PRECISION.                                                    *)
(***************************************************************************)
EXTENDS Integers, Sequences, FiniteSets, TLC

\* ------------------------------------------------------------------ bounds
MaxCycles == 2
MaxFaults == 2
NumPairs == 2
MaxSmall == 12

\* ------------------------------------------------------- configuration
SPREAD_PERCENTAGE == 5
ORDER_SIZE_PERCENTAGE == 2
MAX_ORDERS_PER_PAIR == 2
PRICE_PRECISION == 0

\* A symbol is the tuple of its characters, so that pair[:3] and pair[3:]
\* are the slices the code takes.
ALL_TRADING_PAIRS ==
    << <<"X","B","T","Z","A","R">>,
       <<"E","T","H","Z","A","R">>,
       <<"X","R","P","Z","A","R">>,
       <<"E","T","H","X","B","T">>,
       <<"U","S","D","C","Z","A","R">> >>

\* The configured pairs the model runs: the first NumPairs of the list.
TRADING_PAIRS ==
    SubSeq(ALL_TRADING_PAIRS, 1,
           IF NumPairs < Len(ALL_TRADING_PAIRS) THEN NumPairs
                                                ELSE Len(ALL_TRADING_PAIRS))

NoPair == << >>

\* ------------------------------------------------------------ arithmetic
RECURSIVE Pow10(_)
Pow10(n) == IF n = 0 THEN 1 ELSE 10 * Pow10(n - 1)

\* Python's round(): nearest integer of num/den (den > 0), ties to even.
RoundHalfEven(num, den) ==
    LET q == num \div den
        r == num % den
    IN  IF 2 * r < den THEN q
        ELSE IF 2 * r > den THEN q + 1
        ELSE IF q % 2 = 0 THEN q ELSE q + 1

\* round(x, ndigits) of x = num/den, in units of 10^-ndigits.
Round(num, den, ndigits) == RoundHalfEven(num * Pow10(ndigits), den)

\* float(s): a numeric string parses, anything else raises ValueError.
Num(v) == [t |-> "num", v |-> v]
NotANumber == [t |-> "str", v |-> 0]
Float(s) == IF s.t = "num" THEN [exc |-> "", val |-> s.v]
                           ELSE [exc |-> "ValueError", val |-> 0]

\* A ticker payload: the keys present and the values of bid and ask.
Ticker(bid, ask) == [keys |-> {"bid", "ask", "last_trade"}, bid |-> bid, ask |-> ask]
TickerWithoutBid(ask) == [keys |-> {"ask", "last_trade"}, bid |-> NotANumber, ask |-> ask]
EmptyTicker == [keys |-> {}, bid |-> NotANumber, ask |-> NotANumber]

NoPrices == [exc |-> "", bid |-> 0, ask |-> 0]

\* ------------------------------------------------------- quote calculator
\* new_bid = mid - spread and new_ask = mid + spread over the denominator
\* 2 * 100 * 1000: mid = (bid + ask) / 2 in hundredths, spread =
\* mid * sp / 1000 with sp in tenths of a percent.
get_market_making_prices_half_spread(ticker, sp) ==
    IF "bid" \notin ticker.keys THEN [exc |-> "KeyError", bid |-> 0, ask |-> 0]
    ELSE IF Float(ticker.bid).exc # "" THEN [exc |-> "ValueError", bid |-> 0, ask |-> 0]
    ELSE IF "ask" \notin ticker.keys THEN [exc |-> "KeyError", bid |-> 0, ask |-> 0]
    ELSE IF Float(ticker.ask).exc # "" THEN [exc |-> "ValueError", bid |-> 0, ask |-> 0]
    ELSE LET bid == Float(ticker.bid).val
             ask == Float(ticker.ask).val
         IN  [exc |-> "",
              bid |-> Round((bid + ask) * (2000 - sp), 400000, PRICE_PRECISION),
              ask |-> Round((bid + ask) * (2000 + sp), 400000, PRICE_PRECISION)]

get_market_making_prices_swapped(ticker, sp) ==
    IF "bid" \notin ticker.keys THEN [exc |-> "KeyError", bid |-> 0, ask |-> 0]
    ELSE IF Float(ticker.bid).exc # "" THEN [exc |-> "ValueError", bid |-> 0, ask |-> 0]
    ELSE IF "ask" \notin ticker.keys THEN [exc |-> "KeyError", bid |-> 0, ask |-> 0]
    ELSE IF Float(ticker.ask).exc # "" THEN [exc |-> "ValueError", bid |-> 0, ask |-> 0]
    ELSE LET bid == Float(ticker.bid).val
             ask == Float(ticker.ask).val
         IN  [exc |-> "",
              bid |-> Round((bid + ask) * (1000 + sp), 200000, PRICE_PRECISION),
              ask |-> Round((bid + ask) * (1000 - sp), 200000, PRICE_PRECISION)]

get_market_making_prices_with(ticker, sp) ==
    IF "bid" \notin ticker.keys THEN [exc |-> "KeyError", bid |-> 0, ask |-> 0]
    ELSE IF Float(ticker.bid).exc # "" THEN [exc |-> "ValueError", bid |-> 0, ask |-> 0]
    ELSE IF "ask" \notin ticker.keys THEN [exc |-> "KeyError", bid |-> 0, ask |-> 0]
    ELSE IF Float(ticker.ask).exc # "" THEN [exc |-> "ValueError", bid |-> 0, ask |-> 0]
    ELSE LET bid == Float(ticker.bid).val
             ask == Float(ticker.ask).val
         IN  [exc |-> "",
              bid |-> Round((bid + ask) * (1000 - sp), 200000, PRICE_PRECISION),
              ask |-> Round((bid + ask) * (1000 + sp), 200000, PRICE_PRECISION)]

\* ------------------------------------------------------------ order sizer
Account(asset, balance, reserved) ==
    [asset |-> asset, balance |-> balance, reserved |-> reserved]

RECURSIVE get_asset_balance(_, _)
get_asset_balance(balances, asset) ==
    IF balances = << >> THEN [balance |-> 0, reserved |-> 0, available |-> 0]
    ELSE IF Head(balances).asset = asset
         THEN [balance |-> Head(balances).balance,
               reserved |-> Head(balances).reserved,
               available |-> Head(balances).balance - Head(balances).reserved]
         ELSE get_asset_balance(Tail(balances), asset)

NoVolume == [exc |-> "", num |-> 0, den |-> 1]

\* The volume as the fraction num/den; price counts 10^-PRICE_PRECISION.
\* Only side = "BUY" takes the first branch: the loop passes "ASK" for the
\* sell order.
calculate_order_size(pair, balances, price, side) ==
    IF side = "BUY"
    THEN LET quote_asset == SubSeq(pair, 4, Len(pair))
             available_quote == get_asset_balance(balances, quote_asset).available
         IN  IF price = 0
             THEN [exc |-> "ZeroDivisionError", num |-> 0, den |-> 1]
             ELSE [exc |-> "",
                   num |-> available_quote * ORDER_SIZE_PERCENTAGE * Pow10(PRICE_PRECISION),
                   den |-> 100 * price]
    ELSE LET base_asset == SubSeq(pair, 1, 3)
             available_base == get_asset_balance(balances, base_asset).available
         IN  [exc |-> "",
              num |-> available_base * ORDER_SIZE_PERCENTAGE,
              den |-> 100]

\* volume > 0
Positive(volume) ==
    (volume.num > 0 /\ volume.den > 0) \/ (volume.num < 0 /\ volume.den < 0)

\* ----------------------------------------------------------------- state
VARIABLES
    pc,                 \* the next step of main
    in_handler,         \* TRUE inside one of main's except blocks
    cycle,              \* number of the current iteration of the while loop
    idx,                \* position of the for loop in TRADING_PAIRS
    balances_response,  \* local of place_market_making_orders
    ticker,             \* local: the ticker payload of the current pair
    prices,             \* local: the quote pair of the current pair
    buy_volume,         \* local: the size of the buy order
    orders,             \* local of cancel_all_orders: listed, not yet visited
    active_orders,      \* local: the registry built by this cycle
    venue_orders,       \* the orders open on the venue
    spread_percentage,  \* the spread the quote calculator is run with
    cause,              \* the exception that ended the while loop
    cause_op,           \* the request or call that raised it
    step_log,           \* the steps taken for the current pair in this cycle
    open_at_exit,       \* the orders open when the while loop ended
    swept,              \* the orders a handler issued a cancel request for
    sweep,              \* how far the handler's cancel_all_orders() got
    faults              \* non-success responses received so far

vars == << pc, in_handler, cycle, idx, balances_response, ticker, prices,
           buy_volume, orders, active_orders, venue_orders, spread_percentage,
           cause, cause_op, step_log, open_at_exit, swept, sweep, faults >>

\* ------------------------------------------------------------------ venue
\* make_request: "ok" is a 200/201/202 with a JSON body, "status" any other
\* status (the function returns None), "raise" an exception out of requests
\* or of response.json().  A request that raises leaves the venue as it was.
Responses == IF faults < MaxFaults THEN {"ok", "status", "raise"}
                                   ELSE {"ok", "raise"}

ZAR == <<"Z","A","R">>
XBT == <<"X","B","T">>
ETH == <<"E","T","H">>
XRP == <<"X","R","P">>

Unbound == [tag |-> "unbound", accounts |-> << >>]
None == [tag |-> "None", accounts |-> << >>]
Accounts(list) == [tag |-> "list", accounts |-> list]

Funded == << Account(ZAR, 10000, 0), Account(XBT, 5, 1),
             Account(ETH, 50, 0), Account(XRP, 900, 0) >>
Reserved == << Account(ZAR, 500, 500), Account(XBT, 5, 1) >>
BalanceSamples == {Funded, Reserved, << >>}

\* Healthy tickers of the loop: 1000.00/1002.00, and 0.05/0.05 as ETHXBT
\* trades; then a ticker without "bid", one whose "ask" is not a number and
\* an empty payload.
BotTickers ==
    { Ticker(Num(100000), Num(100200)), Ticker(Num(5), Num(5)),
      TickerWithoutBid(Num(100200)), Ticker(Num(100000), NotANumber),
      EmptyTicker }

Order(pair, type, created) == [pair |-> pair, type |-> type, created |-> created]

\* The venue lists orders oldest first; within a cycle the loop creates
\* them pair by pair, the BID before the ASK.
PairIndex(pair) == CHOOSE i \in 1..Len(ALL_TRADING_PAIRS) : ALL_TRADING_PAIRS[i] = pair
Age(o) == 20 * o.created + 2 * PairIndex(o.pair) + (IF o.type = "ASK" THEN 1 ELSE 0)

RECURSIVE OldestFirst(_)
OldestFirst(set) ==
    IF set = {} THEN << >>
    ELSE LET first == CHOOSE o \in set : \A other \in set : Age(o) <= Age(other)
         IN  << first >> \o OldestFirst(set \ {first})

get_open_orders_current_pair(pair) ==
    OldestFirst({o \in venue_orders : o.pair = TRADING_PAIRS[idx]})

\* The "orders" of a successful listorders response.
get_open_orders(pair) ==
    IF pair = NoPair THEN OldestFirst(venue_orders)
                     ELSE OldestFirst({o \in venue_orders : o.pair = pair})

get_market_making_prices(t) == get_market_making_prices_with(t, spread_percentage)

\* ------------------------------------------------------------------- Init
Init ==
    /\ pc = "balances"
    /\ in_handler = FALSE
    /\ cycle = 1
    /\ idx = 1
    /\ balances_response = Unbound
    /\ ticker = EmptyTicker
    /\ prices = NoPrices
    /\ buy_volume = NoVolume
    /\ orders = << >>
    /\ active_orders = {}
    /\ venue_orders = {}
    /\ spread_percentage = SPREAD_PERCENTAGE
    /\ cause = "none"
    /\ cause_op = "none"
    /\ step_log = << >>
    /\ open_at_exit = {}
    /\ swept = {}
    /\ sweep = "none"
    /\ faults = 0

\* ------------------------------------------------------- control transfer
\* An exception leaves the try block of main: both except blocks call
\* cancel_all_orders() with no pair.
EnterHandler(exc, op) ==
    /\ pc' = "list"
    /\ in_handler' = TRUE
    /\ cause' = exc
    /\ cause_op' = op
    /\ open_at_exit' = venue_orders
    /\ orders' = << >>
    /\ UNCHANGED << cycle, idx, swept, sweep >>

\* An exception or interrupt inside an except block is not caught.
Die ==
    /\ pc' = "done"
    /\ sweep' = "cut"
    /\ UNCHANGED << in_handler, cycle, idx, cause, cause_op, open_at_exit >>

Stay == UNCHANGED << in_handler, cycle, cause, cause_op, open_at_exit, swept, sweep >>

Pair == TRADING_PAIRS[idx]

\* ------------------------------------------------- quote calculator alone
HugeSamples == {100000 + 50 * k : k \in 0..MaxSmall}
MidSamples == {1000 + 10 * k : k \in 0..MaxSmall}
PriceSamples == (0..MaxSmall) \cup MidSamples \cup HugeSamples \cup {0 - 100000}
SpreadSamples == {0, SPREAD_PERCENTAGE, 10, 50}

QuoteTickers ==
    {Ticker(Num(b), Num(a)) : b \in PriceSamples, a \in PriceSamples}
      \cup {TickerWithoutBid(Num(5)), Ticker(NotANumber, Num(5))}

QuoteInit ==
    /\ pc = "quote"
    /\ in_handler = FALSE
    /\ cycle = 1
    /\ idx = 1
    /\ balances_response = Accounts(Funded)
    /\ ticker \in QuoteTickers
    /\ prices = NoPrices
    /\ buy_volume = NoVolume
    /\ orders = << >>
    /\ active_orders = {}
    /\ venue_orders = {}
    /\ spread_percentage \in SpreadSamples
    /\ cause = "none"
    /\ cause_op = "none"
    /\ step_log = << >>
    /\ open_at_exit = {}
    /\ swept = {}
    /\ sweep = "none"
    /\ faults = 0

QuoteStep ==
    /\ pc = "quote"
    /\ prices' = get_market_making_prices(ticker)
    /\ pc' = IF prices'.exc # "" THEN "raised" ELSE "size"
    /\ cause' = IF prices'.exc # "" THEN prices'.exc ELSE cause
    /\ UNCHANGED << in_handler, cycle, idx, balances_response, ticker,
                    buy_volume, orders, active_orders, venue_orders,
                    spread_percentage, cause_op, step_log, open_at_exit,
                    swept, sweep, faults >>

SizeStep ==
    /\ pc = "size"
    /\ buy_volume' = calculate_order_size(Pair, balances_response.accounts,
                                          prices.bid, "BUY")
    /\ pc' = IF buy_volume'.exc # "" THEN "raised" ELSE "sized"
    /\ cause' = IF buy_volume'.exc # "" THEN buy_volume'.exc ELSE cause
    /\ UNCHANGED << in_handler, cycle, idx, balances_response, ticker,
                    prices, orders, active_orders, venue_orders,
                    spread_percentage, cause_op, step_log, open_at_exit,
                    swept, sweep, faults >>

QuoteNext == QuoteStep \/ SizeStep

QuoteSpec == QuoteInit /\ [][QuoteNext]_vars

\* ---------------------------------------------------------- refresh loop
\* place_market_making_orders up to the for loop: get_balances().  A None
\* or an empty list returns at once, and main goes to sleep.
BalancesStep ==
    /\ pc = "balances" /\ ~in_handler
    /\ \E r \in Responses, payload \in BalanceSamples :
         \/ /\ r = "raise"
            /\ EnterHandler("RequestException", "accounts")
            /\ UNCHANGED << balances_response, active_orders, step_log, faults >>
         \/ /\ r = "status"
            /\ balances_response' = None
            /\ faults' = faults + 1
            /\ pc' = "sleep"
            /\ active_orders' = {}
            /\ UNCHANGED << idx, orders, step_log >>
            /\ Stay
         \/ /\ r = "ok" /\ payload = << >> /\ faults < MaxFaults
            /\ balances_response' = Accounts(payload)
            /\ faults' = faults + 1
            /\ pc' = "sleep"
            /\ active_orders' = {}
            /\ UNCHANGED << idx, orders, step_log >>
            /\ Stay
         \/ /\ r = "ok" /\ payload # << >>
            /\ balances_response' = Accounts(payload)
            /\ active_orders' = {}
            /\ idx' = 1
            /\ step_log' = << >>
            /\ pc' = "ticker"
            /\ UNCHANGED << orders, faults >>
            /\ Stay
    /\ UNCHANGED << ticker, prices, buy_volume, venue_orders, spread_percentage >>

\* get_ticker(pair), the continue on a falsy ticker, and
\* get_market_making_prices(ticker), which raises on a bad ticker.
TickerStep ==
    /\ pc = "ticker" /\ ~in_handler
    /\ \E r \in Responses, t \in BotTickers :
         \/ /\ r = "raise"
            /\ EnterHandler("RequestException", "ticker")
            /\ step_log' = << "ticker" >>
            /\ UNCHANGED << ticker, prices, faults >>
         \/ /\ r = "status"
            /\ ticker' = EmptyTicker
            /\ faults' = faults + 1
            /\ IF idx < Len(TRADING_PAIRS)
               THEN idx' = idx + 1 /\ pc' = "ticker" /\ step_log' = << >>
               ELSE idx' = idx /\ pc' = "sleep" /\ step_log' = << "ticker" >>
            /\ UNCHANGED << prices, orders >>
            /\ Stay
         \/ /\ r = "ok" /\ t.keys = {} /\ faults < MaxFaults
            /\ ticker' = t
            /\ faults' = faults + 1
            /\ IF idx < Len(TRADING_PAIRS)
               THEN idx' = idx + 1 /\ pc' = "ticker" /\ step_log' = << >>
               ELSE idx' = idx /\ pc' = "sleep" /\ step_log' = << "ticker" >>
            /\ UNCHANGED << prices, orders >>
            /\ Stay
         \/ /\ r = "ok" /\ t.keys # {}
            /\ ticker' = t
            /\ step_log' = << "ticker", "quote" >>
            /\ IF get_market_making_prices(t).exc # ""
               THEN /\ EnterHandler(get_market_making_prices(t).exc,
                                    "get_market_making_prices")
                    /\ UNCHANGED prices
               ELSE /\ prices' = get_market_making_prices(t)
                    /\ pc' = "list"
                    /\ UNCHANGED << idx, orders >>
                    /\ Stay
            /\ UNCHANGED faults
    /\ UNCHANGED << balances_response, buy_volume, active_orders,
                    venue_orders, spread_percentage >>

\* cancel_all_orders(pair): get_open_orders, and the return when the
\* listing failed.  Called with the pair from the for loop and with no pair
\* from the except blocks.
ListStep ==
    /\ pc = "list"
    /\ \E r \in Responses :
         \/ /\ r = "raise"
            /\ IF in_handler
               THEN Die /\ UNCHANGED << orders, swept >>
               ELSE EnterHandler("RequestException", "listorders")
            /\ UNCHANGED faults
         \/ /\ r = "status"
            /\ faults' = faults + 1
            /\ orders' = << >>
            /\ pc' = IF in_handler THEN "done" ELSE "buy"
            /\ sweep' = IF in_handler THEN "unlisted" ELSE sweep
            /\ UNCHANGED << in_handler, cycle, idx, cause, cause_op,
                            open_at_exit, swept >>
         \/ /\ r = "ok"
            /\ orders' = get_open_orders(IF in_handler THEN NoPair ELSE Pair)
            /\ pc' = IF orders' # << >> THEN "cancel"
                     ELSE IF in_handler THEN "done" ELSE "buy"
            /\ sweep' = IF ~in_handler THEN sweep
                        ELSE IF orders' = << >> THEN "complete" ELSE "listed"
            /\ UNCHANGED << in_handler, cycle, idx, cause, cause_op,
                            open_at_exit, swept, faults >>
    /\ step_log' = IF in_handler THEN step_log ELSE Append(step_log, "cancel")
    /\ UNCHANGED << balances_response, ticker, prices, buy_volume,
                    active_orders, venue_orders, spread_percentage >>

\* One iteration of the for loop of cancel_all_orders: cancel_order of a
\* listed order.  A non-success status and a body without success are the
\* same "Failed to cancel" branch.
CancelStep ==
    /\ pc = "cancel"
    /\ \E r \in Responses :
         \/ /\ r = "raise"
            /\ IF in_handler
               THEN Die /\ UNCHANGED << orders, swept >>
               ELSE EnterHandler("RequestException", "stoporder")
            /\ UNCHANGED << venue_orders, faults >>
         \/ /\ r \in {"status", "ok"}
            /\ venue_orders' = IF r = "ok" THEN venue_orders \ {Head(orders)}
                                           ELSE venue_orders
            /\ faults' = IF r = "ok" THEN faults ELSE faults + 1
            /\ orders' = Tail(orders)
            /\ swept' = IF in_handler THEN swept \cup {Head(orders)} ELSE swept
            /\ pc' = IF orders' # << >> THEN "cancel"
                     ELSE IF in_handler THEN "done" ELSE "buy"
            /\ sweep' = IF in_handler /\ orders' = << >> THEN "complete" ELSE sweep
            /\ UNCHANGED << in_handler, cycle, idx, cause, cause_op, open_at_exit >>
    /\ UNCHANGED << balances_response, ticker, prices, buy_volume,
                    active_orders, spread_percentage, step_log >>

\* Sizing and placing the buy order.
BuyStep ==
    /\ pc = "buy" /\ ~in_handler
    /\ LET v == calculate_order_size(Pair, balances_response.accounts,
                                     prices.bid, "BUY")
       IN  \/ /\ v.exc # ""
              /\ EnterHandler(v.exc, "calculate_order_size")
              /\ step_log' = Append(step_log, "size")
              /\ UNCHANGED << buy_volume, venue_orders, active_orders, faults >>
           \/ /\ v.exc = "" /\ ~Positive(v)
              /\ buy_volume' = v
              /\ pc' = "sell"
              /\ step_log' = Append(step_log, "size")
              /\ UNCHANGED << idx, orders, venue_orders, active_orders, faults >>
              /\ Stay
           \/ /\ v.exc = "" /\ Positive(v)
              /\ step_log' = step_log \o << "size", "submit" >>
              /\ \E r \in Responses :
                   \/ /\ r = "raise"
                      /\ EnterHandler("RequestException", "postorder")
                      /\ UNCHANGED << buy_volume, venue_orders, active_orders, faults >>
                   \/ /\ r = "status"
                      /\ buy_volume' = v
                      /\ faults' = faults + 1
                      /\ pc' = "sell"
                      /\ UNCHANGED << idx, orders, venue_orders, active_orders >>
                      /\ Stay
                   \/ /\ r = "ok"
                      /\ buy_volume' = v
                      /\ venue_orders' = venue_orders \cup {Order(Pair, "BID", cycle)}
                      /\ active_orders' = active_orders \cup {Order(Pair, "BID", cycle)}
                      /\ pc' = "sell"
                      /\ UNCHANGED << idx, orders, faults >>
                      /\ Stay
    /\ UNCHANGED << balances_response, ticker, prices, spread_percentage >>

\* Sizing and placing the sell order, then the next pair.
SellStep ==
    /\ pc = "sell" /\ ~in_handler
    /\ LET v == calculate_order_size(Pair, balances_response.accounts,
                                     prices.ask, "ASK")
           advance(log) ==
               /\ IF idx < Len(TRADING_PAIRS)
                  THEN idx' = idx + 1 /\ pc' = "ticker" /\ step_log' = << >>
                  ELSE idx' = idx /\ pc' = "sleep" /\ step_log' = log
               /\ UNCHANGED orders
               /\ Stay
       IN  \/ /\ ~Positive(v)
              /\ advance(Append(step_log, "size"))
              /\ UNCHANGED << venue_orders, active_orders, faults >>
           \/ /\ Positive(v)
              /\ \E r \in Responses :
                   \/ /\ r = "raise"
                      /\ EnterHandler("RequestException", "postorder")
                      /\ step_log' = step_log \o << "size", "submit" >>
                      /\ UNCHANGED << venue_orders, active_orders, faults >>
                   \/ /\ r = "status"
                      /\ faults' = faults + 1
                      /\ advance(step_log \o << "size", "submit" >>)
                      /\ UNCHANGED << venue_orders, active_orders >>
                   \/ /\ r = "ok"
                      /\ venue_orders' = venue_orders \cup {Order(Pair, "ASK", cycle)}
                      /\ active_orders' = active_orders \cup {Order(Pair, "ASK", cycle)}
                      /\ advance(step_log \o << "size", "submit" >>)
                      /\ UNCHANGED faults
    /\ UNCHANGED << balances_response, ticker, prices, buy_volume, spread_percentage >>

\* time.sleep returns and the while loop starts the next cycle.
SleepStep ==
    /\ pc = "sleep" /\ ~in_handler
    /\ cycle < MaxCycles
    /\ cycle' = cycle + 1
    /\ pc' = "balances"
    /\ step_log' = << >>
    /\ UNCHANGED << in_handler, idx, balances_response, ticker, prices,
                    buy_volume, orders, active_orders, venue_orders,
                    spread_percentage, cause, cause_op, open_at_exit, swept,
                    sweep, faults >>

\* KeyboardInterrupt: caught by main when raised inside the try block, not
\* caught when raised inside an except block.
Interrupt ==
    /\ pc \in {"balances", "ticker", "list", "cancel", "buy", "sell", "sleep"}
    /\ IF in_handler
       THEN Die /\ UNCHANGED << orders, swept >>
       ELSE EnterHandler("KeyboardInterrupt", pc)
    /\ UNCHANGED << balances_response, ticker, prices, buy_volume,
                    active_orders, venue_orders, spread_percentage,
                    step_log, faults >>

Next ==
    \/ BalancesStep
    \/ TickerStep
    \/ ListStep
    \/ CancelStep
    \/ BuyStep
    \/ SellStep
    \/ SleepStep
    \/ Interrupt

Spec == Init /\ [][Next]_vars

\* ----------------------------------------------------------------- claims
Range(seq) == {seq[i] : i \in 1..Len(seq)}
Abs(x) == IF x < 0 THEN 0 - x ELSE x
PerPairRequests == {"ticker", "listorders", "stoporder", "postorder"}
PairsOf(set) == {o.pair : o \in set}

\* The quote calculator has returned a quote pair for the ticker.
Quoted == pc \in {"size", "sized", "raised"} /\ prices.exc = ""
BidOf == Float(ticker.bid).val
AskOf == Float(ticker.ask).val
Width == prices.ask - prices.bid
Unit == Pow10(PRICE_PRECISION)

\* C1: a gateway failure on a per-pair request (ticker, list, cancel, place)
\* never ends the while loop of main: the loop is never left because such a
\* request raised.
C1_GatewayFailureOnlySkips ==
    ~(cause = "RequestException" /\ cause_op \in PerPairRequests)

\* C2 as claimed: once the process has terminated after an interrupt or an
\* error, a cancel request was issued for every order that was open on the
\* venue when the loop ended.
C2_ExitCancelsEveryOpenOrder ==
    (pc = "done" /\ cause # "none") => open_at_exit \subseteq swept

\* C2 as amended: the orders open when the loop ended are all listed by a
\* successful venue-wide listing, and when the handler's sweep ran to its end
\* a cancel request was issued for every one of them.
C2_CompleteSweepCancelsEveryOpenOrder ==
    /\ (in_handler /\ sweep = "listed") => open_at_exit \subseteq (swept \cup Range(orders))
    /\ (pc = "done" /\ sweep = "complete") => open_at_exit \subseteq swept

\* C2 witness: an interrupt in the middle of a cycle, orders of two pairs
\* open, the sweep ran to its end.
C2_Witness ==
    /\ pc = "done" /\ sweep = "complete" /\ cause = "KeyboardInterrupt"
    /\ cause_op = "buy" /\ idx = 1 /\ cycle = 2
    /\ Cardinality(PairsOf(open_at_exit)) >= 2
    /\ open_at_exit \subseteq swept

\* C3: every order created in an earlier cycle is cancelled when the loop
\* processes its pair: once the for loop of a cycle is past the pair's
\* cancellation, the only open orders of that pair are those of this cycle.
C3_NoOrderOutlivesOneInterval ==
    \A o \in venue_orders :
        ( /\ ~in_handler
          /\ pc \in {"ticker", "list", "cancel", "buy", "sell", "sleep"}
          /\ balances_response.tag = "list" /\ balances_response.accounts # << >>
          /\ \/ PairIndex(o.pair) < idx
             \/ PairIndex(o.pair) = idx /\ pc \in {"buy", "sell", "sleep"} )
        => o.created = cycle

\* C4: a failed balance fetch aborts the cycle and nothing else: it never
\* ends the while loop, and after it the loop is asleep or starting the next
\* cycle, with no request for any pair issued.
C4_BalanceFailureAbortsOnlyCycle ==
    /\ cause_op # "accounts"
    /\ (balances_response = None /\ ~in_handler) => pc \in {"sleep", "balances"}

\* C5 as claimed: for bid <= ask and a spread >= 0 the rounded quotes
\* satisfy bid_quote <= mid <= ask_quote.
C5_QuotesBracketMid ==
    (Quoted /\ BidOf <= AskOf /\ spread_percentage >= 0) =>
        /\ 200 * prices.bid <= (BidOf + AskOf) * Unit
        /\ (BidOf + AskOf) * Unit <= 200 * prices.ask

\* C5 as amended: for 0 <= bid <= ask and a spread >= 0 the rounded quotes
\* satisfy bid_quote <= ask_quote, bid_quote <= mid + 1/2 and
\* ask_quote >= mid - 1/2, in units of 10^-PRICE_PRECISION.
C5_QuotesBracketMidWithinRounding ==
    (Quoted /\ 0 <= BidOf /\ BidOf <= AskOf /\ spread_percentage >= 0) =>
        /\ prices.bid <= prices.ask
        /\ 200 * prices.bid <= (BidOf + AskOf) * Unit + 100
        /\ (BidOf + AskOf) * Unit - 100 <= 200 * prices.ask

\* C5 witness: a healthy ticker whose bid quote was rounded to above mid.
C5_Witness ==
    /\ Quoted /\ 0 < BidOf /\ BidOf <= AskOf /\ spread_percentage > 0
    /\ 200 * prices.bid > (BidOf + AskOf) * Unit
    /\ 200 * prices.bid <= (BidOf + AskOf) * Unit + 100

\* C6 as claimed: for bid <= ask and a spread >= 0 the width of the quote
\* pair is mid * spread_percentage / 100, within one unit of rounding.
C6_WidthIsSpreadPercentOfMid ==
    (Quoted /\ BidOf <= AskOf /\ spread_percentage >= 0) =>
        Abs(200000 * Width - (BidOf + AskOf) * spread_percentage * Unit) <= 200000

\* C6 as amended: the width of the quote pair is
\* 2 * mid * spread_percentage / 100, within one unit of rounding.
C6_WidthIsTwiceSpreadPercentOfMid ==
    (Quoted /\ BidOf <= AskOf /\ spread_percentage >= 0) =>
        Abs(100000 * Width - (BidOf + AskOf) * spread_percentage * Unit) <= 100000

\* C6 witness: a quote pair around 1000 at the configured spread, ten units
\* wide.
C6_Witness ==
    /\ Quoted /\ BidOf = 100000 /\ AskOf = 100000
    /\ spread_percentage = SPREAD_PERCENTAGE
    /\ Width = 10

\* C7: a ticker with a missing or non-numeric bid or ask never ends the
\* while loop: the loop is never left because the quote calculation raised.
C7_BadTickerOnlySkipsPair ==
    cause \notin {"KeyError", "ValueError"}

\* C8: for every pair the cancellation of its open orders is issued before
\* its ticker is fetched.
C8_CancelBeforeTicker ==
    \A i \in 1..Len(step_log) :
        step_log[i] = "ticker" => \E j \in 1..(i - 1) : step_log[j] = "cancel"

\* C9: never more than MAX_ORDERS_PER_PAIR orders of one pair are open on
\* the venue.
C9_AtMostTwoOrdersPerPair ==
    \A i \in 1..Len(TRADING_PAIRS) :
        Cardinality({o \in venue_orders : o.pair = TRADING_PAIRS[i]})
            <= MAX_ORDERS_PER_PAIR

\* C10: a ticker with 0 < bid <= ask never makes the sizing of the buy order
\* raise: the loop is never left by a ZeroDivisionError on such a ticker.
C10_HealthyTickerNeverRaisesInSizing ==
    (cause = "ZeroDivisionError" /\ ticker.keys # {}
        /\ Float(ticker.bid).exc = "" /\ Float(ticker.ask).exc = "")
      => ~(0 < BidOf /\ BidOf <= AskOf)

====
